---- MODULE Spec2Model ----
(***************************************************************************)
(* io-redirect: re-pointing a stream (stdout, stderr, an open File) at      *)
(* another open object or at a path.  The model holds the part of the       *)
(* process and of the operating system the library acts on: the descriptor  *)
(* (Unix) or native-handle (Windows) table, the open file objects behind    *)
(* it with their offsets and append flags, the C-runtime descriptor table   *)
(* of the Windows libc backend, the process-wide standard-handle slots, and *)
(* the contents of the files.                                               *)
(***************************************************************************)
EXTENDS Integers, Sequences, FiniteSets, TLC

\* ---------------------------------------------------------------- bounds
MaxDesc   == 6   \* size of the descriptor / native-handle table
MaxCrt    == 4   \* size of the C-runtime descriptor table (Windows libc backend)
MaxSteps  == 3   \* operations (library calls, writes, closes) in one behaviour
MaxFaults == 1   \* transient OS failures the environment injects in one behaviour
MaxAppendSteps == 5  \* operations in one behaviour of the append-only caller
MaxConcWrites == 1   \* writes made while the threads run their redirects
MaxChainSteps == 4   \* operations in one behaviour of the caller that chains redirects

\* ---------------------------------------------------------------- universe
Platforms == {"unix", "windows"}
Std       == {"stdout", "stderr"}
Files     == {"file1", "file2"}
Entities  == Std \cup Files

\* Paths a caller hands to the path forms: a regular file (present or not),
\* a directory, and a path whose parent directory does not exist.
RegularPaths == {"out", "err", "file1.txt", "file2.txt", "log"}
Directories  == {"dir"}
DstPaths     == {"log", "dir", "nodir/f"}

Descs == 1 .. MaxDesc
Slots == 1 .. MaxCrt

\* Which fallible OS call of a handler fails (0: none).  A handler issues at
\* most five: open, two open_osfhandle, dup2 and get_osfhandle.
Faults == 0 .. 5

VARIABLES
    platform,   \* the build target
    fds,        \* descriptor / native handle -> open file object (0: closed)
    ofds,       \* the open file objects: [path, off, app]
    fs,         \* regular files: path -> content
    crt,        \* C-runtime descriptor -> native handle (0: free)
    hnd,        \* entity -> the descriptor / handle it reports
    dropped,    \* Files whose descriptor the caller has closed
    last,       \* what the last operation was and what it returned
    link,       \* per source: the destination it was last redirected to, and
                \* the bytes written through either of the two since then
    nsteps,     \* operations made
    nfaults,    \* OS failures injected
    thr         \* per thread: the redirect call it is in, and where in it

vars == <<platform, fds, ofds, fs, crt, hnd, dropped, last, link, nsteps, nfaults,
          thr>>

\* ---------------------------------------------------------------- helpers
Min(S) == CHOOSE x \in S : \A y \in S : x <= y
Range(q) == {q[i] : i \in 1 .. Len(q)}

FreeDescs(st) == {d \in Descs : st.fds[d] = 0}
FreeSlots(st) == {s \in Slots : st.crt[s] = 0}
IsOpen(st, d) == d \in Descs /\ st.fds[d] # 0

\* The result of an OS call or of a library operation.
Ret(st, ok, err, val) == [st |-> st, ok |-> ok, err |-> err, val |-> val]

\* Every OS call a handler issues is logged with its argument and what it
\* returned (-1: it failed).
Log(st, name, arg, ret) == [st EXCEPT !.calls = Append(@, <<name, arg, ret>>)]
Failed(st, name, arg, err) == Ret(Log(st, name, arg, -1), FALSE, err, 0)
Faulted(st) == st.fault = 1
Tick(st) == [st EXCEPT !.fault = IF @ > 0 THEN @ - 1 ELSE 0]

\* STD_OUTPUT_HANDLE / STD_ERROR_HANDLE, numbered as the Unix descriptors.
StdNo(e) == IF e = "stdout" THEN 1 ELSE 2

\* ---------------------------------------------------------------- OS calls
\* open(2) / CreateFileW as std::fs::OpenOptions drives it.
OpenOptions_open(st, opts, path) ==
    LET s1 == Tick(st) IN
    IF Faulted(st) THEN Failed(s1, "open", 0, "EINTR")
    ELSE IF path \in Directories THEN Failed(s1, "open", 0, "EISDIR")
    ELSE IF path \notin RegularPaths THEN Failed(s1, "open", 0, "ENOENT")
    ELSE IF path \notin DOMAIN s1.fs /\ ~opts.create THEN Failed(s1, "open", 0, "ENOENT")
    ELSE IF FreeDescs(s1) = {} THEN Failed(s1, "open", 0, "EMFILE")
    ELSE
        LET d == Min(FreeDescs(s1))
            content == IF path \in DOMAIN s1.fs /\ ~opts.truncate
                       THEN s1.fs[path] ELSE <<>>
            nfs == [p \in DOMAIN s1.fs \cup {path} |->
                        IF p = path THEN content ELSE s1.fs[p]]
            nofds == Append(s1.ofds, [path |-> path, off |-> 0, app |-> opts.append])
        IN Ret(Log([s1 EXCEPT !.fs = nfs, !.ofds = nofds, !.fds[d] = Len(nofds)],
                   "open", 0, d),
               TRUE, "none", d)

\* close(2) / CloseHandle: what dropping a File does.
close(st, d) ==
    LET s1 == Log(st, "close", d, 0) IN
    IF IsOpen(s1, d) THEN [s1 EXCEPT !.fds[d] = 0] ELSE s1

\* write(2) / WriteFile of one byte through descriptor d.
write(st, d, b) ==
    IF ~IsOpen(st, d) THEN Ret(st, FALSE, "EBADF", 0)
    ELSE
        LET o   == st.fds[d]
            f   == st.ofds[o]
            cur == st.fs[f.path]
            pos == IF f.app THEN Len(cur) ELSE f.off
            len == IF pos + 1 > Len(cur) THEN pos + 1 ELSE Len(cur)
            new == [i \in 1 .. len |->
                        IF i = pos + 1 THEN b
                        ELSE IF i <= Len(cur) THEN cur[i] ELSE 0]
        IN Ret([st EXCEPT !.fs[f.path] = new, !.ofds[o].off = pos + 1],
               TRUE, "none", pos + 1)

\* dup2(old, new).  POSIX: all or nothing on the descriptor table.  Windows:
\* the C runtime's _dup2 on its own table; it first closes the handle behind
\* `new` and then stores a duplicate of the handle behind `old`, so that a
\* failing DuplicateHandle leaves `new` closed.
dup2(st, old, new) ==
    LET s1 == Tick(st) IN
    IF s1.platform = "unix" THEN
        IF Faulted(st) THEN Failed(s1, "dup2", new, "EINTR")
        ELSE IF ~IsOpen(s1, old) \/ new \notin Descs THEN Failed(s1, "dup2", new, "EBADF")
        ELSE Ret(Log([s1 EXCEPT !.fds[new] = s1.fds[old]], "dup2", new, new),
                 TRUE, "none", new)
    ELSE
        IF old \notin Slots \/ new \notin Slots THEN Failed(s1, "dup2", new, "EBADF")
        ELSE IF s1.crt[old] = 0 THEN Failed(s1, "dup2", new, "EBADF")
        ELSE IF old = new THEN Ret(Log(s1, "dup2", new, new), TRUE, "none", new)
        ELSE
            LET h  == s1.crt[new]
                s2 == IF h # 0 THEN [s1 EXCEPT !.fds[h] = 0, !.crt[new] = 0] ELSE s1
            IN IF Faulted(st) THEN Failed(s2, "dup2", new, "EMFILE")
               ELSE IF ~IsOpen(s2, s2.crt[old]) THEN Failed(s2, "dup2", new, "EBADF")
               ELSE LET n == Min(FreeDescs(s2))
                    IN Ret(Log([s2 EXCEPT !.fds[n] = s2.fds[s2.crt[old]], !.crt[new] = n],
                               "dup2", new, new),
                           TRUE, "none", new)

\* _open_osfhandle: a new C-runtime descriptor for a native handle.
open_osfhandle(st, h) ==
    LET s1 == Tick(st) IN
    IF Faulted(st) THEN Failed(s1, "open_osfhandle", h, "EMFILE")
    ELSE IF ~IsOpen(s1, h) THEN Failed(s1, "open_osfhandle", h, "EBADF")
    ELSE IF FreeSlots(s1) = {} THEN Failed(s1, "open_osfhandle", h, "EMFILE")
    ELSE LET s == Min(FreeSlots(s1))
         IN Ret(Log([s1 EXCEPT !.crt[s] = h], "open_osfhandle", h, s), TRUE, "none", s)

\* _get_osfhandle: the native handle behind a C-runtime descriptor; it fails
\* on a descriptor that is not open (the code checks for -1: the descriptor
\* is a process-wide number anything in the process may have closed).
get_osfhandle(st, fd) ==
    LET s1 == Tick(st) IN
    IF Faulted(st) THEN Failed(s1, "get_osfhandle", fd, "EBADF")
    ELSE IF fd \notin Slots THEN Failed(s1, "get_osfhandle", fd, "EBADF")
    ELSE IF s1.crt[fd] = 0 THEN Failed(s1, "get_osfhandle", fd, "EBADF")
    ELSE Ret(Log(s1, "get_osfhandle", fd, s1.crt[fd]), TRUE, "none", s1.crt[fd])

\* SetStdHandle: stores the handle in the process-wide slot, unvalidated.
SetStdHandle(st, std_handle, h) ==
    LET s1 == Tick(st) IN
    IF Faulted(st) THEN Failed(s1, "SetStdHandle", StdNo(std_handle), "EINVAL")
    ELSE Ret(Log([s1 EXCEPT !.hnd[std_handle] = h], "SetStdHandle", StdNo(std_handle), 0),
             TRUE, "none", 0)

\* std::mem::forget(dst): the File is abandoned, its descriptor stays open.
forget(st, d) == Log(st, "forget", d, 0)

\* ---------------------------------------------------------------- the library
\* Mutant: the arguments of dup2 exchanged.
redirect_fd_to_fd_swapped(st, src, dst) ==
    LET result == dup2(st, src, dst) IN
    IF ~result.ok THEN Ret(result.st, FALSE, result.err, 0)
    ELSE Ret(result.st, TRUE, "none", 0)

\* Mutant: the result of dup2 is not looked at.
redirect_fd_to_fd_unchecked(st, src, dst) ==
    LET result == dup2(st, dst, src) IN Ret(result.st, TRUE, "none", 0)

\* Mutant: the source is closed first and the destination duplicated after.
redirect_fd_to_fd_close_first(st, src, dst) ==
    LET result == dup2(close(st, src), dst, src) IN
    IF ~result.ok THEN Ret(result.st, FALSE, result.err, 0)
    ELSE Ret(result.st, TRUE, "none", 0)

redirect_fd_to_fd(st, src, dst) ==
    LET result == dup2(st, dst, src) IN
    IF ~result.ok THEN Ret(result.st, FALSE, result.err, 0)
    ELSE Ret(result.st, TRUE, "none", 0)

\* Mutant: the destination is taken by value and dropped at the end.
platform_redirect_drop_dst(st, self, destination) ==
    LET r == redirect_fd_to_fd(st, st.hnd[self], destination)
    IN Ret(close(r.st, destination), r.ok, r.err, 0)

\* Mutant: the source takes the destination's descriptor number, nothing is
\* duplicated.
platform_redirect_alias(st, self, destination) ==
    IF ~IsOpen(st, destination) THEN Failed(st, "dup2", st.hnd[self], "EBADF")
    ELSE Ret(Log([st EXCEPT !.hnd[self] = destination], "dup2", st.hnd[self], 0),
             TRUE, "none", 0)

\* Unix: Redirectable<T2> for T1, any two describable values.
platform_redirect(st, self, destination) ==
    LET src_fd == st.hnd[self]
        dst_fd == destination
    IN redirect_fd_to_fd(st, src_fd, dst_fd)

\* Mutant: the handle field is written before the new handle is checked (a
\* failed get_osfhandle returns no handle: 0).
libc_backend_redirect_patch_first(st, self, destination) ==
    LET src_fd == open_osfhandle(st, st.hnd[self])
    IN IF ~src_fd.ok THEN Ret(src_fd.st, FALSE, src_fd.err, 0)
       ELSE LET dst_fd == open_osfhandle(src_fd.st, destination)
       IN IF ~dst_fd.ok THEN Ret(dst_fd.st, FALSE, dst_fd.err, 0)
          ELSE LET r == redirect_fd_to_fd(dst_fd.st, src_fd.val, dst_fd.val)
          IN IF ~r.ok THEN Ret(r.st, FALSE, r.err, 0)
             ELSE LET new_src_handle == get_osfhandle(r.st, src_fd.val)
                      patched == [new_src_handle.st EXCEPT
                                     !.hnd[self] = new_src_handle.val]
             IN Ret(patched, new_src_handle.ok, new_src_handle.err, 0)

\* Windows, libc backend: Redirectable<T> for File.
libc_backend_redirect(st, self, destination) ==
    LET src_handle == st.hnd[self]
        dst_handle == destination
        src_fd == open_osfhandle(st, src_handle)
    IN IF ~src_fd.ok THEN Ret(src_fd.st, FALSE, src_fd.err, 0)
       ELSE LET dst_fd == open_osfhandle(src_fd.st, dst_handle)
       IN IF ~dst_fd.ok THEN Ret(dst_fd.st, FALSE, dst_fd.err, 0)
          ELSE LET r == redirect_fd_to_fd(dst_fd.st, src_fd.val, dst_fd.val)
          IN IF ~r.ok THEN Ret(r.st, FALSE, r.err, 0)
             ELSE LET new_src_handle == get_osfhandle(r.st, src_fd.val)
             IN IF ~new_src_handle.ok
                THEN Ret(new_src_handle.st, FALSE, new_src_handle.err, 0)
                ELSE Ret([new_src_handle.st EXCEPT !.hnd[self] = new_src_handle.val],
                         TRUE, "none", 0)

\* Mutant: both standard slots are set.
redirect_using_setstdhandle_both(st, std_handle, destination) ==
    LET result == SetStdHandle(st, std_handle, destination)
    IN IF ~result.ok THEN Ret(result.st, FALSE, result.err, 0)
       ELSE Ret([result.st EXCEPT !.hnd = [e \in Entities |->
                                             IF e \in Std THEN destination
                                             ELSE result.st.hnd[e]]],
                TRUE, "none", 0)

\* Windows, windows-sys backend: Redirectable<T> for Stdout and for Stderr.
redirect_using_setstdhandle(st, std_handle, destination) ==
    LET dst_handle == destination
        result == SetStdHandle(st, std_handle, dst_handle)
    IN IF ~result.ok THEN Ret(result.st, FALSE, result.err, 0)
       ELSE Ret(result.st, TRUE, "none", 0)

\* The implementation the build selects for `self.redirect(&destination)`.
redirect(st, self, destination) ==
    IF st.platform = "unix" THEN platform_redirect(st, self, destination)
    ELSE IF self \in Std THEN redirect_using_setstdhandle(st, self, destination)
    ELSE libc_backend_redirect(st, self, destination)

\* Mutant: the destination opened without append.
PathOptions_noappend ==
    [write |-> TRUE, create |-> TRUE, append |-> FALSE, truncate |-> FALSE]

\* The options Redirectable<Path> opens its destination with.
PathOptions == [write |-> TRUE, create |-> TRUE, append |-> TRUE, truncate |-> FALSE]

\* Redirectable<Path> for T.
redirect_path(st, self, destination) ==
    LET dst == OpenOptions_open(st, PathOptions, destination) IN
    IF ~dst.ok THEN Ret(dst.st, FALSE, dst.err, 0)
    ELSE LET result == redirect(dst.st, self, dst.val)
         IN IF result.ok THEN Ret(forget(result.st, dst.val), TRUE, "none", dst.val)
            ELSE Ret(close(result.st, dst.val), FALSE, result.err, dst.val)

\* The options redirect_std_to_path opens its destination with.
StdOptions(append) ==
    [write |-> TRUE, create |-> TRUE, append |-> append, truncate |-> FALSE]

\* Mutant: standard error is redirected even when standard output failed.
redirect_std_to_path_continue(st, destination, append) ==
    LET dst == OpenOptions_open(st, StdOptions(append), destination) IN
    IF ~dst.ok THEN Ret(dst.st, FALSE, dst.err, 0)
    ELSE LET r1 == redirect(dst.st, "stdout", dst.val)
             r2 == redirect(r1.st, "stderr", dst.val)
         IN IF ~r1.ok THEN Ret(close(r2.st, dst.val), FALSE, r1.err, dst.val)
            ELSE IF ~r2.ok THEN Ret(close(r2.st, dst.val), FALSE, r2.err, dst.val)
            ELSE Ret(forget(r2.st, dst.val), TRUE, "none", dst.val)

\* Mutant: only standard output is redirected.
redirect_std_to_path_stdout_only(st, destination, append) ==
    LET dst == OpenOptions_open(st, StdOptions(append), destination) IN
    IF ~dst.ok THEN Ret(dst.st, FALSE, dst.err, 0)
    ELSE LET r1 == redirect(dst.st, "stdout", dst.val)
         IN IF ~r1.ok THEN Ret(close(r1.st, dst.val), FALSE, r1.err, dst.val)
            ELSE Ret(forget(r1.st, dst.val), TRUE, "none", dst.val)

redirect_std_to_path(st, destination, append) ==
    LET dst == OpenOptions_open(st, StdOptions(append), destination) IN
    IF ~dst.ok THEN Ret(dst.st, FALSE, dst.err, 0)
    ELSE LET r1 == redirect(dst.st, "stdout", dst.val)
         IN IF ~r1.ok THEN Ret(close(r1.st, dst.val), FALSE, r1.err, dst.val)
            ELSE LET r2 == redirect(r1.st, "stderr", dst.val)
                 IN IF ~r2.ok THEN Ret(close(r2.st, dst.val), FALSE, r2.err, dst.val)
                    ELSE Ret(forget(r2.st, dst.val), TRUE, "none", dst.val)

\* ---------------------------------------------------------------- state machine
\* The process state a handler runs on, with the fault the environment
\* injects into this call and an empty log of the OS calls it issues.
Cur(flt) ==
    [platform |-> platform, fds |-> fds, ofds |-> ofds, fs |-> fs, crt |-> crt,
     hnd |-> hnd, fault |-> flt, calls |-> <<>>]

Commit(r) ==
    /\ fds' = r.st.fds
    /\ ofds' = r.st.ofds
    /\ fs' = r.st.fs
    /\ crt' = r.st.crt
    /\ hnd' = r.st.hnd

\* A fault is injected only while the budget lasts and only into a call the
\* handler reaches (the countdown ran out).
FaultOk(flt) == flt = 0 \/ nfaults < MaxFaults
Reached(flt, r) == flt = 0 \/ r.st.fault = 0
Count(flt) == nfaults' = IF flt > 0 THEN nfaults + 1 ELSE nfaults

\* The file behind a descriptor ("none": the descriptor is closed).
PathOf(d) == IF d \in Descs /\ fds[d] # 0 THEN ofds[fds[d]].path ELSE "none"

NoLink == [dst |-> "none", kind |-> "none", file |-> "none", from |-> "none",
           bytes |-> <<>>, via |-> <<>>]

\* The links after a library call on the sources `selves`: a source the call
\* has redirected (`ok`: it returned Ok, and source and destination were open)
\* is linked to its new destination, and a link whose source the call has
\* acted on ends.  A link to an object whose destination the call has acted
\* on as a source is kept, marked as one whose destination was redirected.
Relink(selves, ok, new) ==
    [e \in Entities |->
        IF e \in selves THEN (IF ok THEN new[e] ELSE NoLink)
        ELSE IF link[e].dst \in selves
        THEN (IF link[e].kind \in {"object", "dst_redirected"}
              THEN [link[e] EXCEPT !.kind = "dst_redirected"] ELSE NoLink)
        ELSE link[e]]

\* The threads of the caller, and a thread that is in no call.
Threads == {"t1", "t2"}
Idle == [pc |-> "idle", form |-> "none", self |-> "none", dst |-> "none",
         dstd |-> 0, src_fd |-> 0, dst_fd |-> 0, new_src_handle |-> 0,
         ok |-> FALSE, err |-> "none", ofd |-> 0, dupped |-> FALSE, prior |-> {}]

\* What an operation was and returned; `again`: it is the object-form redirect
\* the operation before it was, and that one returned Ok.
Op(op, self, dst, append, r, opened) ==
    [op |-> op, self |-> self, dst |-> dst, append |-> append,
     ok |-> r.ok, err |-> r.err, calls |-> r.st.calls, opened |-> opened,
     again |-> /\ op = "redirect" /\ last.op = "redirect" /\ last.ok
               /\ last.self = self /\ last.dst = dst]

Init ==
    /\ platform \in Platforms
    /\ fds = [d \in Descs |-> IF d <= Cardinality(Entities) THEN d ELSE 0]
    /\ ofds = << [path |-> "out", off |-> 0, app |-> FALSE],
                 [path |-> "err", off |-> 0, app |-> FALSE],
                 [path |-> "file1.txt", off |-> 0, app |-> FALSE],
                 [path |-> "file2.txt", off |-> 0, app |-> FALSE] >>
    /\ \E old \in {<<>>, <<0, 0>>} :
         fs = [p \in (IF old = <<>> THEN {} ELSE {"log"})
                     \cup {"out", "err", "file1.txt", "file2.txt"} |->
                 IF p = "log" THEN old ELSE <<>>]
    /\ crt = [s \in Slots |-> 0]
    /\ hnd = [e \in Entities |->
                CASE e = "stdout" -> 1 [] e = "stderr" -> 2
                  [] e = "file1" -> 3 [] e = "file2" -> 4]
    /\ dropped = {}
    /\ last = [op |-> "none", self |-> "none", dst |-> "none", append |-> FALSE,
               ok |-> TRUE, err |-> "none", calls |-> <<>>, opened |-> 0,
               again |-> FALSE]
    /\ link = [e \in Entities |-> NoLink]
    /\ nsteps = 0
    /\ nfaults = 0
    /\ thr = [t \in Threads |-> Idle]

\* self.redirect(&destination), destination a File of the caller.
RedirectCall(self, dst, flt) ==
    /\ self \notin dropped
    /\ FaultOk(flt)
    /\ \E r \in {redirect(Cur(flt), self, hnd[dst])} :
        /\ Reached(flt, r)
        /\ Commit(r)
        /\ last' = Op("redirect", self, dst, FALSE, r, 0)
        /\ link' = Relink({self},
                          r.ok /\ PathOf(hnd[self]) # "none" /\ PathOf(hnd[dst]) # "none",
                          [e \in {self} |->
                             [dst |-> dst, kind |-> "object", file |-> PathOf(hnd[dst]),
                              from |-> PathOf(hnd[self]), bytes |-> <<>>,
                              via |-> <<>>]])
    /\ Count(flt)
    /\ nsteps' = nsteps + 1
    /\ UNCHANGED <<platform, dropped, thr>>

Redirect(self, dst, flt) == nsteps < MaxSteps /\ RedirectCall(self, dst, flt)

\* self.redirect(path).  The source is linked to the path (there is no
\* destination object the caller could act on).
RedirectPathCall(self, path, flt) ==
    /\ self \notin dropped
    /\ FaultOk(flt)
    /\ \E r \in {redirect_path(Cur(flt), self, path)} :
        /\ Reached(flt, r)
        /\ Commit(r)
        /\ last' = Op("redirect_path", self, path, TRUE, r, r.val)
        /\ link' = Relink({self}, r.ok /\ PathOf(hnd[self]) # "none",
                          [e \in {self} |->
                             [dst |-> "path", kind |-> "path", file |-> path,
                              from |-> PathOf(hnd[self]), bytes |-> <<>>,
                              via |-> <<>>]])
    /\ Count(flt)
    /\ nsteps' = nsteps + 1
    /\ UNCHANGED <<platform, dropped, thr>>

RedirectPath(self, path, flt) == nsteps < MaxSteps /\ RedirectPathCall(self, path, flt)

\* redirect_std_to_path(path, append).
RedirectStdToPathCall(path, append, flt) ==
    /\ FaultOk(flt)
    /\ \E r \in {redirect_std_to_path(Cur(flt), path, append)} :
        /\ Reached(flt, r)
        /\ Commit(r)
        /\ last' = Op("redirect_std_to_path", "none", path, append, r, r.val)
        /\ link' = Relink(Std, r.ok,
                          [e \in Std |->
                             [dst |-> IF e = "stdout" THEN "stderr" ELSE "stdout",
                              kind |-> IF append THEN "std_append" ELSE "std",
                              file |-> path, from |-> PathOf(hnd[e]), bytes |-> <<>>,
                              via |-> <<>>]])
    /\ Count(flt)
    /\ nsteps' = nsteps + 1
    /\ UNCHANGED <<platform, dropped, thr>>

RedirectStdToPath(path, append, flt) ==
    nsteps < MaxSteps /\ RedirectStdToPathCall(path, append, flt)

\* The caller writes one byte through an entity and flushes it.  The byte
\* is the number of the step, so that a file shows the order of the writes.
WriteCall(e) ==
    /\ e \notin dropped
    /\ \E r \in {write(Cur(0), hnd[e], nsteps + 1)} :
        /\ Commit(r)
        /\ last' = Op("write", e, "none", FALSE, r, 0)
    /\ link' = [s \in Entities |->
                  IF \/ link[s].dst # "none" /\ e = s
                     \/ link[s].kind # "dst_redirected" /\ e = link[s].dst
                  THEN [link[s] EXCEPT !.bytes = Append(@, nsteps + 1),
                                       !.via = Append(@, e)]
                  ELSE link[s]]
    /\ nsteps' = nsteps + 1
    /\ UNCHANGED <<platform, dropped, nfaults, thr>>

Write(e) == nsteps < MaxSteps /\ WriteCall(e)

\* The caller closes the descriptor of one of its Files.  A link to it from
\* another source is kept, marked as one whose destination is closed.
Close(e) ==
    /\ nsteps < MaxSteps
    /\ e \notin dropped
    /\ \E s \in {close(Cur(0), hnd[e])} :
        /\ fds' = s.fds
        /\ last' = [op |-> "close", self |-> e, dst |-> "none", append |-> FALSE,
                    ok |-> TRUE, err |-> "none", calls |-> <<>>, opened |-> 0,
                    again |-> FALSE]
    /\ link' = [s \in Entities |->
                  IF s # e /\ link[s].dst = e
                  THEN [link[s] EXCEPT !.kind = "dst_closed"]
                  ELSE Relink({e}, FALSE, <<>>)[s]]
    /\ dropped' = dropped \cup {e}
    /\ nsteps' = nsteps + 1
    /\ UNCHANGED <<platform, ofds, fs, crt, hnd, nfaults, thr>>

\* The destinations `self.redirect(&dst)` compiles with.  On Unix a descriptor
\* number is itself a destination (RawFd: AsRawFd), the source's own number
\* included; on Windows a destination is an object with a handle, borrowed
\* while the source is borrowed mutably, so it is another object.
Borrowable(self, dst) == platform = "windows" => self # dst

DoRedirect ==
    \E self \in Entities, dst \in Files, flt \in Faults :
        Borrowable(self, dst) /\ Redirect(self, dst, flt)
DoRedirectPath ==
    \E self \in Entities, path \in DstPaths, flt \in Faults : RedirectPath(self, path, flt)
DoRedirectStdToPath ==
    \E path \in DstPaths, append \in BOOLEAN, flt \in Faults :
        RedirectStdToPath(path, append, flt)
DoWrite == \E e \in Entities : Write(e)
DoClose == \E e \in Files : Close(e)

\* Every operation, in any order.
Next == DoRedirect \/ DoRedirectPath \/ DoRedirectStdToPath \/ DoWrite \/ DoClose
Spec == Init /\ [][Next]_vars

\* A caller that uses only the object form.
NextObject == DoRedirect \/ DoWrite \/ DoClose
SpecObject == Init /\ [][NextObject]_vars

\* A caller that uses only the path form.
NextPath == DoRedirectPath \/ DoWrite
SpecPath == Init /\ [][NextPath]_vars

\* A caller that uses only redirect_std_to_path.
NextStd == DoRedirectStdToPath \/ DoWrite
SpecStd == Init /\ [][NextStd]_vars

\* A caller that redirects one stream after another to its Files and writes
\* through them; the OS injects no failure.
DoChainRedirect ==
    \E self \in Entities, dst \in Files :
        /\ nsteps < MaxChainSteps
        /\ Borrowable(self, dst)
        /\ RedirectCall(self, dst, 0)
DoChainWrite == \E e \in Entities : nsteps < MaxChainSteps /\ WriteCall(e)
NextChain == DoChainRedirect \/ DoChainWrite
SpecChain == Init /\ [][NextChain]_vars

\* A caller that sends streams to one log file in append mode, with either
\* path form, and writes through them; the OS injects no failure.
AppendPath == "log"
AppendSources == {"stdout", "file1", "file2"}
DoAppendRedirectPath ==
    \E self \in AppendSources :
        nsteps < MaxAppendSteps /\ RedirectPathCall(self, AppendPath, 0)
DoAppendRedirectStd ==
    nsteps < MaxAppendSteps /\ RedirectStdToPathCall(AppendPath, TRUE, 0)
DoAppendWrite == \E e \in Entities : nsteps < MaxAppendSteps /\ WriteCall(e)
NextAppend == DoAppendRedirectPath \/ DoAppendRedirectStd \/ DoAppendWrite
SpecAppend == Init /\ [][NextAppend]_vars

\* A caller that redirects to its own Files, writes and closes them, and
\* sends one File and the standard streams to the log file.
DoLogRedirectPath == \E flt \in Faults : RedirectPath("file1", AppendPath, flt)
DoLogRedirectStdToPath == \E flt \in Faults : RedirectStdToPath(AppendPath, TRUE, flt)
NextOwner ==
    DoRedirect \/ DoWrite \/ DoClose \/ DoLogRedirectPath \/ DoLogRedirectStdToPath
SpecOwner == Init /\ [][NextOwner]_vars

\* ---------------------------------------------------------------- threads
\* Two threads of the caller, each in one redirect call (object form or path
\* form), taken one OS call at a time, while standard output, standard error
\* and the Files no call holds are written to.
Started(t) == thr[t].pc # "idle"

\* The first OS call of the implementation the build selects for self.
RedirectPc(self) ==
    IF platform = "unix" THEN "dup2"
    ELSE IF self \in Std THEN "setstdhandle" ELSE "bridge_src"

\* The call returns: the object form at once, the path form after it has
\* abandoned or dropped the File it opened.
Return(t, ok, err) ==
    [thr[t] EXCEPT !.ok = ok, !.err = err,
                   !.pc = IF thr[t].form = "path" THEN "finish" ELSE "done"]

\* The duplication step of thread t has re-pointed its source (in the Windows
\* libc backend: the File's handle field names the duplicate).
Dupped(t) ==
    [Return(t, TRUE, "none") EXCEPT
        !.dupped = TRUE,
        !.prior = {u \in Threads \ {t} : thr[u].dupped /\ thr[u].self = thr[t].self}]

ThreadStep(t, flt, r, new) ==
    /\ FaultOk(flt)
    /\ Reached(flt, r)
    /\ Commit(r)
    /\ thr' = [thr EXCEPT ![t] = new]
    /\ Count(flt)
    /\ UNCHANGED <<platform, dropped, last, link, nsteps>>

\* A thread calls self.redirect(&dst) or self.redirect(path).  `&mut self`
\* and `&dst` are Rust borrows: a File that is the source of one thread's call
\* is not in the other thread's call, and is not its own destination.
\* Standard output and standard error are shared by all threads.
Start(t, form, self, dst) ==
    /\ thr[t].pc = "idle"
    /\ t = "t2" => Started("t1")
    /\ form = "object" => dst \in Files \ {self}
    /\ form = "path" => dst \in DstPaths
    /\ \A u \in Threads \ {t} :
          Started(u) =>
            /\ self \in Files => self \notin {thr[u].self, thr[u].dst}
            /\ dst # thr[u].self
    /\ thr' = [thr EXCEPT ![t] =
                 [Idle EXCEPT !.pc = IF form = "path" THEN "open" ELSE RedirectPc(self),
                              !.form = form, !.self = self, !.dst = dst,
                              !.dstd = IF form = "object" THEN hnd[dst] ELSE 0,
                              !.ofd = IF form = "object" THEN fds[hnd[dst]] ELSE 0]]
    /\ UNCHANGED <<platform, fds, ofds, fs, crt, hnd, dropped, last, link, nsteps,
                   nfaults>>

\* Path form: OpenOptions::new()...open(destination)?
TOpen(t, flt) ==
    /\ thr[t].pc = "open"
    /\ \E r \in {OpenOptions_open(Cur(flt), PathOptions, thr[t].dst)} :
         ThreadStep(t, flt, r,
            IF r.ok THEN [thr[t] EXCEPT !.dstd = r.val, !.ofd = r.st.fds[r.val],
                                        !.pc = RedirectPc(thr[t].self)]
            ELSE [thr[t] EXCEPT !.ok = FALSE, !.err = r.err, !.pc = "done"])

\* Windows libc backend: open_osfhandle(src_handle, 0).
TBridgeSrc(t, flt) ==
    /\ thr[t].pc = "bridge_src"
    /\ \E r \in {open_osfhandle(Cur(flt), hnd[thr[t].self])} :
         ThreadStep(t, flt, r,
            IF r.ok THEN [thr[t] EXCEPT !.src_fd = r.val, !.pc = "bridge_dst"]
            ELSE Return(t, FALSE, r.err))

\* Windows libc backend: open_osfhandle(dst_handle, 0).
TBridgeDst(t, flt) ==
    /\ thr[t].pc = "bridge_dst"
    /\ \E r \in {open_osfhandle(Cur(flt), thr[t].dstd)} :
         ThreadStep(t, flt, r,
            IF r.ok THEN [thr[t] EXCEPT !.dst_fd = r.val, !.pc = "dup2"]
            ELSE Return(t, FALSE, r.err))

\* redirect_fd_to_fd, on the descriptors (Unix) or on the bridged C-runtime
\* descriptors (Windows libc backend; _dup2 holds the C runtime's locks on
\* the two descriptors for its close and its duplicate).
TDup2(t, flt) ==
    /\ thr[t].pc = "dup2"
    /\ \E r \in {IF platform = "unix"
                 THEN redirect_fd_to_fd(Cur(flt), hnd[thr[t].self], thr[t].dstd)
                 ELSE redirect_fd_to_fd(Cur(flt), thr[t].src_fd, thr[t].dst_fd)} :
         ThreadStep(t, flt, r,
            IF ~r.ok THEN Return(t, FALSE, r.err)
            ELSE IF platform = "unix" THEN Dupped(t)
            ELSE [thr[t] EXCEPT !.pc = "get_osfhandle"])

\* Windows libc backend: get_osfhandle(src_fd).
TGetOsfhandle(t, flt) ==
    /\ thr[t].pc = "get_osfhandle"
    /\ \E r \in {get_osfhandle(Cur(flt), thr[t].src_fd)} :
         ThreadStep(t, flt, r,
            IF r.ok THEN [thr[t] EXCEPT !.new_src_handle = r.val, !.pc = "patch"]
            ELSE Return(t, FALSE, r.err))

\* Windows libc backend: *handle_ptr = new_src_handle.
TPatch(t) ==
    /\ thr[t].pc = "patch"
    /\ hnd' = [hnd EXCEPT ![thr[t].self] = thr[t].new_src_handle]
    /\ thr' = [thr EXCEPT ![t] = Dupped(t)]
    /\ UNCHANGED <<platform, fds, ofds, fs, crt, dropped, last, link, nsteps, nfaults>>

\* Windows windows-sys backend: SetStdHandle(std_handle, dst_handle).
TSetStdHandle(t, flt) ==
    /\ thr[t].pc = "setstdhandle"
    /\ \E r \in {redirect_using_setstdhandle(Cur(flt), thr[t].self, thr[t].dstd)} :
         ThreadStep(t, flt, r,
            IF r.ok THEN Dupped(t) ELSE Return(t, FALSE, r.err))

\* Path form: mem::forget(dst) when the redirect succeeded, dst dropped when
\* it failed.
TFinish(t) ==
    /\ thr[t].pc = "finish"
    /\ \E st \in {IF thr[t].ok THEN forget(Cur(0), thr[t].dstd)
                  ELSE close(Cur(0), thr[t].dstd)} :
         /\ fds' = st.fds
         /\ thr' = [thr EXCEPT ![t].pc = "done"]
    /\ UNCHANGED <<platform, ofds, fs, crt, hnd, dropped, last, link, nsteps, nfaults>>

\* A write made while the threads run: through standard output or standard
\* error, or through a File no running call holds as its source.
ConcWrite(e) ==
    /\ nsteps < MaxConcWrites
    /\ \A t \in Threads : thr[t].pc \notin {"idle", "done"} => thr[t].self # e
    /\ WriteCall(e)

DoStart ==
    \E t \in Threads, form \in {"object", "path"}, self \in Entities,
       dst \in Files \cup DstPaths : Start(t, form, self, dst)
DoOpen == \E t \in Threads, flt \in {0, 1} : TOpen(t, flt)
DoBridgeSrc == \E t \in Threads, flt \in {0, 1} : TBridgeSrc(t, flt)
DoBridgeDst == \E t \in Threads, flt \in {0, 1} : TBridgeDst(t, flt)
DoDup2 == \E t \in Threads, flt \in {0, 1} : TDup2(t, flt)
DoGetOsfhandle == \E t \in Threads, flt \in {0, 1} : TGetOsfhandle(t, flt)
DoPatch == \E t \in Threads : TPatch(t)
DoSetStdHandle == \E t \in Threads, flt \in {0, 1} : TSetStdHandle(t, flt)
DoFinish == \E t \in Threads : TFinish(t)
DoConcWrite == \E e \in Entities : ConcWrite(e)

NextThreads ==
    \/ DoStart \/ DoOpen \/ DoBridgeSrc \/ DoBridgeDst \/ DoDup2 \/ DoGetOsfhandle
    \/ DoPatch \/ DoSetStdHandle \/ DoFinish \/ DoConcWrite
SpecThreads == Init /\ [][NextThreads]_vars

\* ---------------------------------------------------------------- observations
Content(p) == IF p \in DOMAIN fs THEN fs[p] ELSE <<>>
OpenDescs == {d \in Descs : fds[d] # 0}
OpenSlots == {s \in Slots : crt[s] # 0}

\* The bytes bs, each written once, are all in the content c, in this order.
Pos(b, c) == CHOOSE i \in 1 .. Len(c) : c[i] = b
InOrder(bs, c) ==
    /\ \A i \in 1 .. Len(bs) : bs[i] \in Range(c)
    /\ \A i, j \in 1 .. Len(bs) : i < j => Pos(bs[i], c) < Pos(bs[j], c)

\* Content in the state a step leads to.
ContentNext(p) == IF p \in DOMAIN fs' THEN fs'[p] ELSE <<>>

\* The entities whose descriptor refers to an append-mode object on file p.
AppendWriters(p) ==
    {e \in Entities : PathOf(hnd[e]) = p /\ ofds[fds[hnd[e]]].app}

\* PathOf in the state a step leads to.
PathOfNext(d) == IF d \in Descs /\ fds'[d] # 0 THEN ofds'[fds'[d]].path ELSE "none"

\* The step just taken was an operation `op` (every operation counts a step).
Did(op) == nsteps' = nsteps + 1 /\ last'.op = op

\* In the log of a redirect_std_to_path call: the redirect calls on standard
\* stream n (1: output, 2: error).
StreamCalls(l, n) ==
    {i \in 1 .. Len(l.calls) :
        l.calls[i][1] \in {"dup2", "SetStdHandle"} /\ l.calls[i][2] = n}
StreamFailed(l, n) == \E i \in StreamCalls(l, n) : l.calls[i][3] = -1
StreamOk(l, n) == \E i \in StreamCalls(l, n) : l.calls[i][3] # -1
Calls(l, name) == {i \in 1 .. Len(l.calls) : l.calls[i][1] = name}

\* The open object an entity is routed to (0: none, its descriptor is closed),
\* and the one it was routed to at the start.
Routed(e) == fds[hnd[e]]
Origin(e) ==
    CASE e = "stdout" -> 1 [] e = "stderr" -> 2 [] e = "file1" -> 3 [] e = "file2" -> 4

\* The threads whose duplication step on source e ran, and among them the
\* one whose step ran last.
Duppers(e) == {t \in Threads : thr[t].self = e /\ thr[t].dupped}
Winner(e) == {t \in Duppers(e) : Duppers(e) \ {t} \subseteq thr[t].prior}

\* The names of the OS calls in a log, and the four calls of the Windows libc
\* backend before it writes the File's handle field.
Names(l) == [i \in 1 .. Len(l.calls) |-> l.calls[i][1]]
BackendSteps == <<"open_osfhandle", "open_osfhandle", "dup2", "get_osfhandle">>

\* The redirect goes through redirect_fd_to_fd (descriptors), not SetStdHandle.
OnDescriptors(self) == platform = "unix" \/ self \in Files

\* ---------------------------------------------------------------- claims

ClaimC2 ==
    [][ /\ Did("redirect_std_to_path") /\ last'.ok =>
            fs'[last'.dst] = (IF last'.append THEN Content(last'.dst) ELSE <<>>)
        /\ ( /\ Did("write") /\ last'.self \in Std
             /\ last.op = "redirect_std_to_path" /\ last.ok ) =>
            fs'[last.dst] = Append(fs[last.dst], nsteps') ]_vars

\* C3 as stated: after a successful source.redirect(path) in the default
\* variant the content the file had is gone.
ClaimC3 ==
    (last.op = "redirect_path" /\ last.ok) => fs[last.dst] = <<>>

\* C3 amended: the path form has one open mode, append.  A successful
\* source.redirect(path) leaves the content of the file as it was (empty if the
\* file was created), the source then refers to an append-mode object on the
\* file, and a write through the source right after is placed at the end.
ThmC3 ==
    [][ /\ Did("redirect_path") /\ last'.ok =>
            /\ fs'[last'.dst] = Content(last'.dst)
            /\ ofds'[fds'[last'.opened]].app
            /\ PathOfNext(hnd'[last'.self]) = last'.dst
        /\ ( /\ Did("write") /\ last'.self = last.self
             /\ last.op = "redirect_path" /\ last.ok ) =>
            /\ last'.ok
            /\ fs'[last.dst] = Append(fs[last.dst], nsteps') ]_vars

\* C3 witness: a successful path redirect to a file that held content.
WitC3 ==
    /\ last.op = "redirect_path" /\ last.ok
    /\ fs[last.dst] = <<0, 0>>

\* C4: when source.redirect(path) returns Err the error carries an OS error
\* code, the source refers to the same object as before the call, and no
\* descriptor the call has opened is still open.
ClaimC4 ==
    [][ Did("redirect_path") /\ ~last'.ok =>
            /\ last'.err # "none"
            /\ hnd'[last'.self] = hnd[last'.self]
            /\ fds'[hnd[last'.self]] = fds[hnd[last'.self]]
            /\ OpenDescs' \subseteq OpenDescs
            /\ OpenSlots' \subseteq OpenSlots ]_vars

ClaimC6 ==
    [][ ( /\ Did("redirect_std_to_path")
          /\ StreamOk(last', 1) /\ StreamFailed(last', 2) ) =>
            /\ ~last'.ok
            /\ PathOfNext(hnd'["stdout"]) = last'.dst
            /\ PathOfNext(hnd'["stderr"]) = PathOf(hnd["stderr"]) ]_vars

\* C7: in redirect_std_to_path, when the redirect of standard output fails,
\* standard error is not attempted and keeps its backing, the opened object is
\* closed and the error is returned; the opened object is abandoned (forgotten)
\* exactly once when both redirects succeeded, and never otherwise, and it is
\* never both closed and abandoned.
ThmC7 ==
    [][ Did("redirect_std_to_path") =>
            /\ StreamFailed(last', 1) =>
                  /\ StreamCalls(last', 2) = {}
                  /\ ~last'.ok /\ last'.err # "none"
                  /\ {last'.calls[i][2] : i \in Calls(last', "close")} = {last'.opened}
                  /\ last'.opened \notin OpenDescs
                  /\ hnd'["stderr"] = hnd["stderr"]
                  /\ fds'[hnd["stderr"]] = fds[hnd["stderr"]]
            /\ Cardinality(Calls(last', "forget")) =
                  (IF StreamOk(last', 1) /\ StreamOk(last', 2) THEN 1 ELSE 0)
            /\ Cardinality(Calls(last', "close")) =
                  (IF Calls(last', "forget") = {} /\ last'.opened # 0 THEN 1 ELSE 0)
            /\ last'.ok = (Calls(last', "forget") # {})
            /\ last'.ok => last'.opened \in OpenDescs' ]_vars

\* C7 witness: a call whose redirect of standard output has failed.
WitC7 ==
    /\ last.op = "redirect_std_to_path"
    /\ StreamFailed(last, 1)
    /\ last.opened # 0

\* C8: a successful source.redirect(path) leaves exactly one more descriptor
\* open in the process than before the call, the opened destination.
ClaimC8 ==
    [][ Did("redirect_path") /\ last'.ok =>
            /\ last'.opened \in OpenDescs'
            /\ Cardinality(OpenDescs') + Cardinality(OpenSlots')
                 = Cardinality(OpenDescs) + Cardinality(OpenSlots) + 1 ]_vars

\* C9: with the object form alone, the process never holds more open
\* descriptors and descriptor-table slots than it started with.
ClaimC9 ==
    Cardinality(OpenDescs) + Cardinality(OpenSlots) <= Cardinality(Entities)

\* C10: after a successful redirect_std_to_path(p, append = true), and until
\* the next call, standard output and standard error refer to one object on p,
\* and the bytes written through the two are in p in the order they were written.
ThmC10 ==
    \A s \in Std :
        link[s].kind = "std_append" =>
            /\ PathOf(hnd[s]) = link[s].file
            /\ fds[hnd["stdout"]] = fds[hnd["stderr"]]
            /\ InOrder(link[s].bytes, Content(link[s].file))

\* C10 witness: a byte through standard output, then one through standard
\* error, after the old content of the file.
WitC10 ==
    /\ link["stdout"].kind = "std_append"
    /\ link["stdout"].via = <<"stdout", "stderr">>
    /\ Content(link["stdout"].file) = <<0, 0>> \o link["stdout"].bytes

\* C11: with one path opened in append mode by several redirects (different
\* sources, or the same call again), a write through any of the writers adds
\* its byte at the end of the file and no other step changes the file; so
\* every byte written through a writer is in the file, and the bytes of the
\* file are in the order the writes were issued.
ThmC11 ==
    /\ [][ IF Did("write") /\ last'.ok /\ last'.self \in AppendWriters(AppendPath)
           THEN fs'[AppendPath] = Append(fs[AppendPath], nsteps')
           ELSE ContentNext(AppendPath) = Content(AppendPath) ]_vars
    /\ [](\A s \in Entities :
            link[s].kind \in {"path", "std_append"} =>
                InOrder(link[s].bytes, Content(link[s].file)))
    /\ [](\A i, j \in 1 .. Len(Content(AppendPath)) :
            i < j => Content(AppendPath)[i] <= Content(AppendPath)[j])

\* C11 witness: two sources redirected to the path by two calls (two open
\* objects), a write through the first, one through the second and another
\* through the first; the file holds its old content and the three bytes.
WitC11 ==
    \E s1, s2 \in Entities :
        /\ link[s1].kind = "path" /\ link[s2].kind = "path"
        /\ fds[hnd[s1]] # fds[hnd[s2]]
        /\ Len(link[s1].bytes) = 2 /\ Len(link[s2].bytes) = 1
        /\ Content(AppendPath) =
              <<0, 0, link[s1].bytes[1], link[s2].bytes[1], link[s1].bytes[2]>>

\* C12: a redirect call leaves the content of the file its source referred
\* to as it was, and so does every write made through the source after the
\* redirect and before the source is redirected again (the destination being
\* another file than the original one).
ClaimC12 ==
    [][ /\ Did("redirect") =>
            ContentNext(PathOf(hnd[last'.self])) = Content(PathOf(hnd[last'.self]))
        /\ ( /\ Did("write") /\ link[last'.self].kind # "none"
             /\ link[last'.self].from # link[last'.self].file ) =>
            ContentNext(link[last'.self].from) = Content(link[last'.self].from) ]_vars

\* C13: when the two threads' calls have returned, a source whose redirect
\* succeeded is routed to the open object of its own destination if the
\* sources differ, and if both calls were on the same source, to the
\* destination of the call whose duplication step ran last; it is routed to
\* an open object, and to no other one.
ThmC13 ==
    (\A t \in Threads : thr[t].pc = "done") =>
        \A e \in Entities :
            Duppers(e) # {} =>
                /\ Cardinality(Winner(e)) = 1
                /\ \A t \in Winner(e) : Routed(e) = thr[t].ofd /\ thr[t].ok
                /\ Routed(e) # 0

\* C13 witness: two path-form calls on the same source have returned; the one
\* that opened its file first ran its duplication step last, and the source
\* is routed to its file.
WitC13 ==
    \E t, u \in Threads :
        /\ thr[t].pc = "done" /\ thr[u].pc = "done"
        /\ thr[t].self = thr[u].self
        /\ thr[t].form = "path" /\ thr[u].form = "path"
        /\ thr[t].dupped /\ u \in thr[t].prior
        /\ thr[t].ofd < thr[u].ofd
        /\ Routed(thr[t].self) = thr[t].ofd

\* C14: on Unix the descriptor of every entity refers to an open object in
\* every state, also between the OS calls of the redirects in progress: the
\* object it started with until a duplication step on it has run, and from
\* then on the destination of the last such step; and a write through it,
\* whenever it is made, succeeds.
ThmC14 ==
    /\ [](platform = "unix" =>
            \A e \in Entities :
                /\ Routed(e) # 0
                /\ Duppers(e) = {} => Routed(e) = Origin(e)
                /\ \A t \in Winner(e) : Routed(e) = thr[t].ofd)
    /\ [][platform = "unix" /\ Did("write") => last'.ok]_vars

\* C14 witness: on Unix a write through the source of a path-form call,
\* made after the duplication step and before the call has returned, has
\* put its byte in the file at the path.
WitC14 ==
    \E t \in Threads :
        /\ platform = "unix"
        /\ thr[t].pc = "finish" /\ thr[t].dupped
        /\ last.op = "write" /\ last.self = thr[t].self /\ last.ok
        /\ nsteps \in Range(Content(thr[t].dst))

ThmC16 ==
    [][ ( /\ Did("redirect") /\ platform = "windows"
          /\ last'.self \in Files ) =>
            LET n == Len(last'.calls) IN
            /\ n \in 1 .. 4
            /\ Names(last') = SubSeq(BackendSteps, 1, n)
            /\ \A i \in 1 .. n - 1 : last'.calls[i][3] # -1
            /\ last'.ok = (n = 4 /\ last'.calls[n][3] # -1)
            /\ last'.ok => hnd'[last'.self] = last'.calls[4][3]
            /\ ~last'.ok =>
                  /\ last'.calls[n][3] = -1
                  /\ last'.err # "none"
                  /\ hnd'[last'.self] = hnd[last'.self] ]_vars

\* C16 witness: the fourth step, get_osfhandle, has failed after the three
\* before it succeeded, and the File's handle field is the one it started
\* with.
WitC16 ==
    /\ platform = "windows" /\ last.op = "redirect" /\ last.self \in Files
    /\ ~last.ok
    /\ Len(last.calls) = 4 /\ last.calls[4][3] = -1
    /\ nsteps = 1 /\ hnd[last.self] = Origin(last.self)

\* C17: in the Windows native backend, Stdout.redirect(&dst) and
\* Stderr.redirect(&dst) issue one SetStdHandle on their own slot; on success
\* the slot holds dst's handle, and on failure (the call returned zero) the
\* result is Err with the OS error and the slot holds what it held; the other
\* slot, dst's handle, the handle table and the files are as they were.
ThmC17 ==
    [][ ( /\ Did("redirect") /\ platform = "windows"
          /\ last'.self \in Std ) =>
            /\ Len(last'.calls) = 1
            /\ last'.calls[1][1] = "SetStdHandle"
            /\ last'.calls[1][2] = StdNo(last'.self)
            /\ last'.ok = (last'.calls[1][3] # -1)
            /\ hnd'[last'.self] = (IF last'.ok THEN hnd[last'.dst] ELSE hnd[last'.self])
            /\ \A e \in Entities \ {last'.self} : hnd'[e] = hnd[e]
            /\ ~last'.ok => last'.err # "none"
            /\ fds' = fds /\ ofds' = ofds /\ crt' = crt /\ fs' = fs ]_vars

\* C17 witness: Stdout.redirect(&file) has succeeded on Windows; the
\* standard-output slot holds the File's handle and the standard-error slot
\* the handle it started with.
WitC17 ==
    /\ platform = "windows" /\ last.op = "redirect" /\ last.ok
    /\ last.self = "stdout"
    /\ hnd["stdout"] = hnd[last.dst] /\ hnd["stdout"] # Origin("stdout")
    /\ hnd["stderr"] = Origin("stderr")

\* C18: on Unix, once source.redirect(&destination) has succeeded and the
\* caller has closed the destination's descriptor, the source's descriptor is
\* open on the destination's file, and the bytes written through the source
\* are in that file, in the order they were written.
ThmC18 ==
    platform = "unix" =>
        \A s \in Entities :
            link[s].kind = "dst_closed" =>
                /\ Routed(s) # 0
                /\ PathOf(hnd[s]) = link[s].file
                /\ InOrder(link[s].bytes, Content(link[s].file))
                /\ (last.op = "write" /\ last.self = s) => last.ok

\* C18 witness: on Unix the destination was closed after the redirect, and a
\* byte then written through the source is in the destination's file.
WitC18 ==
    \E s \in Entities :
        /\ platform = "unix"
        /\ link[s].kind = "dst_closed"
        /\ link[s].dst \in dropped /\ Routed(link[s].dst) = 0
        /\ link[s].from # link[s].file
        /\ last.op = "write" /\ last.self = s
        /\ link[s].bytes = <<nsteps>>
        /\ Content(link[s].file) = <<nsteps>>

\* C19: after a.redirect(&b) has succeeded and b has then been redirected
\* itself, a's descriptor is still open on the file b referred to when a was
\* redirected, the bytes written through a are in that file, in order, and
\* none of them is in the file b was sent to.
ClaimC19 ==
    \A a \in Entities :
        link[a].kind = "dst_redirected" =>
            /\ Routed(a) # 0
            /\ PathOf(hnd[a]) = link[a].file
            /\ InOrder(link[a].bytes, Content(link[a].file))
            /\ ( /\ link[link[a].dst].kind = "object"
                 /\ link[link[a].dst].file # link[a].file ) =>
                  Range(link[a].bytes) \cap Range(Content(link[link[a].dst].file)) = {}

\* C20: on Unix, source.redirect(&destination) made again right after it
\* returned Ok, and source.redirect(&source) on an open source, leave the
\* descriptor table as it is, with the source open, and return Ok (unless the
\* OS fails the call, and then too the table is as it was).
ThmC20 ==
    [][ ( /\ Did("redirect") /\ platform = "unix"
          /\ \/ last'.again
             \/ last'.self = last'.dst /\ Routed(last'.self) # 0 ) =>
            /\ fds' = fds /\ hnd' = hnd /\ ofds' = ofds
            /\ fds'[hnd'[last'.self]] # 0
            /\ nfaults' = nfaults => last'.ok ]_vars

\* C20 witness: on Unix the same redirect between two different Files has
\* returned Ok twice in a row, and source and destination are on one object.
WitC20 ==
    /\ platform = "unix" /\ last.op = "redirect" /\ last.again /\ last.ok
    /\ last.self # last.dst
    /\ Routed(last.self) = Routed(last.dst) /\ Routed(last.self) # 0

====
